---- MODULE Spec2Model ----
(***************************************************************************)
(* redis-shell, data extension (redis_shell/extensions/data/commands.py):  *)
(* the export/import engine of DataCommands.                               *)
(*                                                                         *)
(* Text is a sequence of Unicode code points, a byte string a sequence of  *)
(* numbers 0..255.  A value is a record [t |-> "bytes" | "str", v |-> seq].*)
(***************************************************************************)
EXTENDS Integers, Sequences, FiniteSets, TLC

VARIABLES
    shell,          \* "running" | "exited" (the foreground process)
    export_thread,  \* DataCommands._export_thread: NoThread or a thread id
    export_status,  \* DataCommands._export_status
    current_operation, \* DataCommands._current_operation
    stop_event,     \* DataCommands._stop_event
    workers,        \* thread id -> the worker thread's frame (_export_thread_func)
    files,          \* thread id -> text of the export file that run wrote
    state,          \* StateManager._state['data']: last_export / last_import
    source,         \* the keys the server holds, in the order KEYS returns them
    fg,             \* the last foreground call: [seq, call, result]
    imp,            \* the last import run: [file, sent, executed, ok, failed, db]
    managers        \* the StateManager objects, the handles to them, the state file

vars == <<shell, export_thread, export_status, current_operation, stop_event,
          workers, files, state, source, fg, imp, managers>>

-----------------------------------------------------------------------------
(* Characters the code names.                                              *)
QUOTE == 34
BACKSLASH == 92
SPACE == 32
HASH == 35
LETTER_X == 120
PAD == 61
NEWLINE == 10
CARRIAGE_RETURN == 13
DOLLAR == 36

(* The bounds of the model.                                                *)
MaxLen == 2
MaxKeys == 2
MaxRuns == 2
MaxCalls == 4
MaxLines == 3

-----------------------------------------------------------------------------
(* Sequence helpers standing for Python's str methods.                     *)

StartsWith(s, p) == Len(s) >= Len(p) /\ SubSeq(s, 1, Len(p)) = p

EndsWith(s, p) == Len(s) >= Len(p) /\ SubSeq(s, Len(s) - Len(p) + 1, Len(s)) = p

Drop(s, n) == SubSeq(s, n + 1, Len(s))

RECURSIVE Join(_, _)
Join(parts, sep) ==
    IF parts = <<>> THEN <<>>
    ELSE IF Len(parts) = 1 THEN parts[1]
    ELSE parts[1] \o sep \o Join(Tail(parts), sep)

(* str.replace(old, new): left to right, non-overlapping.                  *)
RECURSIVE Replace(_, _, _)
Replace(s, old, new) ==
    IF s = <<>> THEN <<>>
    ELSE IF StartsWith(s, old) THEN new \o Replace(Drop(s, Len(old)), old, new)
    ELSE <<s[1]>> \o Replace(Tail(s), old, new)

(* str.isspace() and str.isprintable() of one character (exact to U+00FF). *)
IsSpace(c) == c \in (9..13) \cup (28..32) \cup {133, 160}

IsPrintable(c) == c \in (32..126) \cup (161..172) \cup (174..255)

(* str.upper() on ASCII letters.                                           *)
Upper(s) == [i \in 1..Len(s) |-> IF s[i] \in 97..122 THEN s[i] - 32 ELSE s[i]]

(* str.strip().                                                            *)
RECURSIVE LStrip(_)
LStrip(s) == IF s # <<>> /\ IsSpace(s[1]) THEN LStrip(Tail(s)) ELSE s

RECURSIVE RStrip(_)
RStrip(s) ==
    IF s # <<>> /\ IsSpace(s[Len(s)]) THEN RStrip(SubSeq(s, 1, Len(s) - 1)) ELSE s

Strip(s) == RStrip(LStrip(s))

-----------------------------------------------------------------------------
(* UTF-8, as bytes.decode('utf-8') and str.encode('utf-8') compute it.     *)

\* the range the byte after lead byte b must lie in; {} when b cannot lead
Utf8Second(b) ==
    IF b \in 194..223 THEN 128..191
    ELSE IF b = 224 THEN 160..191
    ELSE IF b \in (225..236) \cup (238..239) THEN 128..191
    ELSE IF b = 237 THEN 128..159
    ELSE IF b = 240 THEN 144..191
    ELSE IF b \in 241..243 THEN 128..191
    ELSE IF b = 244 THEN 128..143
    ELSE {}

Utf8Width(b) ==
    IF b < 128 THEN 1 ELSE IF b \in 194..223 THEN 2
    ELSE IF b \in 224..239 THEN 3 ELSE IF b \in 240..244 THEN 4 ELSE 0

\* [ok |-> BOOLEAN, text |-> code points]; ok = FALSE is UnicodeDecodeError
RECURSIVE Utf8Decode(_)
Utf8Decode(b) ==
    IF b = <<>> THEN [ok |-> TRUE, text |-> <<>>]
    ELSE LET w == Utf8Width(b[1])
             good == /\ w >= 1
                     /\ Len(b) >= w
                     /\ w >= 2 => b[2] \in Utf8Second(b[1])
                     /\ \A i \in 3..w : b[i] \in 128..191
             cp == IF w = 1 THEN b[1]
                   ELSE IF w = 2 THEN (b[1] - 192) * 64 + (b[2] - 128)
                   ELSE IF w = 3 THEN (b[1] - 224) * 4096 + (b[2] - 128) * 64 + (b[3] - 128)
                   ELSE (b[1] - 240) * 262144 + (b[2] - 128) * 4096
                        + (b[3] - 128) * 64 + (b[4] - 128)
         IN  IF ~good THEN [ok |-> FALSE, text |-> <<>>]
             ELSE LET rest == Utf8Decode(Drop(b, w))
                  IN  [ok |-> rest.ok, text |-> <<cp>> \o rest.text]

RECURSIVE Utf8Encode(_)
Utf8Encode(s) ==
    IF s = <<>> THEN <<>>
    ELSE LET c == s[1]
             head == IF c < 128 THEN <<c>>
                     ELSE IF c < 2048 THEN <<192 + (c \div 64), 128 + (c % 64)>>
                     ELSE IF c < 65536
                          THEN <<224 + (c \div 4096), 128 + ((c \div 64) % 64), 128 + (c % 64)>>
                     ELSE <<240 + (c \div 262144), 128 + ((c \div 4096) % 64),
                            128 + ((c \div 64) % 64), 128 + (c % 64)>>
         IN  head \o Utf8Encode(Tail(s))

-----------------------------------------------------------------------------
(* Base64, as base64.b64encode and base64.b64decode compute it.            *)

B64Char(i) ==
    IF i < 26 THEN 65 + i ELSE IF i < 52 THEN 97 + (i - 26)
    ELSE IF i < 62 THEN 48 + (i - 52) ELSE IF i = 62 THEN 43 ELSE 47

\* the sextet a character stands for, -1 when it is not of the alphabet
B64Index(c) ==
    IF c \in 65..90 THEN c - 65 ELSE IF c \in 97..122 THEN c - 97 + 26
    ELSE IF c \in 48..57 THEN c - 48 + 52 ELSE IF c = 43 THEN 62
    ELSE IF c = 47 THEN 63 ELSE -1

RECURSIVE B64Encode(_)
B64Encode(b) ==
    IF b = <<>> THEN <<>>
    ELSE IF Len(b) = 1
         THEN <<B64Char(b[1] \div 4), B64Char((b[1] % 4) * 16), PAD, PAD>>
    ELSE IF Len(b) = 2
         THEN <<B64Char(b[1] \div 4), B64Char((b[1] % 4) * 16 + (b[2] \div 16)),
                B64Char((b[2] % 16) * 4), PAD>>
    ELSE <<B64Char(b[1] \div 4), B64Char((b[1] % 4) * 16 + (b[2] \div 16)),
           B64Char((b[2] % 16) * 4 + (b[3] \div 64)), B64Char(b[3] % 64)>>
         \o B64Encode(Drop(b, 3))

\* binascii.a2b_base64, not strict: characters outside the alphabet are skipped,
\* a complete pad sequence ends the input, a dangling quad is an error.
RECURSIVE B64Scan(_, _, _, _, _, _)
B64Scan(s, i, quad, left, pads, out) ==
    IF i > Len(s) THEN [ok |-> quad = 0, bytes |-> out]
    ELSE LET c == s[i]
             v == B64Index(c)
         IN  IF c = PAD
             THEN IF quad >= 2 /\ quad + pads + 1 >= 4
                  THEN [ok |-> TRUE, bytes |-> out]
                  ELSE B64Scan(s, i + 1, quad, left,
                               IF quad >= 2 THEN pads + 1 ELSE pads, out)
             ELSE IF v = -1 THEN B64Scan(s, i + 1, quad, left, pads, out)
             ELSE IF quad = 0 THEN B64Scan(s, i + 1, 1, v, 0, out)
             ELSE IF quad = 1
                  THEN B64Scan(s, i + 1, 2, v % 16, 0, Append(out, left * 4 + (v \div 16)))
             ELSE IF quad = 2
                  THEN B64Scan(s, i + 1, 3, v % 4, 0, Append(out, left * 16 + (v \div 4)))
             ELSE B64Scan(s, i + 1, 0, 0, 0, Append(out, left * 64 + v))

\* b64decode of a str: it must be ASCII (otherwise ValueError)
B64Decode(s) ==
    IF \E i \in 1..Len(s) : s[i] > 127 THEN [ok |-> FALSE, bytes |-> <<>>]
    ELSE B64Scan(s, 1, 0, 0, 0, <<>>)

-----------------------------------------------------------------------------
(* The key codec: DataCommands._format_for_command and the tokenizer and   *)
(* argument decoder of DataCommands._import.                               *)

NoneValue == [t |-> "none", v |-> <<>>]
Bytes(b) == [t |-> "bytes", v |-> b]
Str(s) == [t |-> "str", v |-> s]

\* the bytes a value is on the wire (redis-py encodes str as UTF-8)
Wire(value) == IF value.t = "str" THEN Utf8Encode(value.v) ELSE value.v

_escape_quotes(s) == Replace(s, <<QUOTE>>, <<BACKSLASH, QUOTE>>)

Quoted(s) == <<QUOTE>> \o s \o <<QUOTE>>

_format_for_command(value) ==
    IF value.t = "none" THEN <<QUOTE, QUOTE>>
    ELSE IF value.t = "bytes"
    THEN LET d == Utf8Decode(value.v)
         IN  IF d.ok /\ \A i \in 1..Len(d.text) : IsPrintable(d.text[i]) \/ IsSpace(d.text[i])
             THEN Quoted(_escape_quotes(d.text))
             ELSE Quoted(<<BACKSLASH, LETTER_X>> \o B64Encode(value.v))
    ELSE Quoted(_escape_quotes(value.v))

\* the quote test of the tokenizer: a '"' toggles in_quotes unless the part so
\* far ends with one backslash that is not the second of two
QuoteToggles(current_part) ==
    ~EndsWith(current_part, <<BACKSLASH>>) \/ EndsWith(current_part, <<BACKSLASH, BACKSLASH>>)

RECURSIVE TokenizeFrom(_, _, _, _, _)
TokenizeFrom(line, i, parts, current_part, in_quotes) ==
    IF i > Len(line)
    THEN IF current_part # <<>> THEN Append(parts, current_part) ELSE parts
    ELSE LET char == line[i]
         IN  IF char = QUOTE /\ QuoteToggles(current_part)
             THEN TokenizeFrom(line, i + 1, parts, Append(current_part, char), ~in_quotes)
             ELSE IF IsSpace(char) /\ ~in_quotes
             THEN TokenizeFrom(line, i + 1,
                               IF current_part # <<>> THEN Append(parts, current_part) ELSE parts,
                               <<>>, in_quotes)
             ELSE TokenizeFrom(line, i + 1, parts, Append(current_part, char), in_quotes)

Tokenize(line) == TokenizeFrom(line, 1, <<>>, <<>>, FALSE)

\* ProcessArg with the prefix left on what goes to b64decode
ProcessArgKeepingPrefix(arg) ==
    IF StartsWith(arg, <<QUOTE>>) /\ EndsWith(arg, <<QUOTE>>)
    THEN LET inner == SubSeq(arg, 2, Len(arg) - 1)
         IN  IF StartsWith(inner, <<BACKSLASH, LETTER_X>>)
             THEN LET d == B64Decode(inner)
                  IN  IF d.ok THEN Bytes(d.bytes) ELSE Str(inner)
             ELSE Str(Replace(inner, <<BACKSLASH, QUOTE>>, <<QUOTE>>))
    ELSE Str(arg)

\* one argument of a line, as the import hands it to the client
ProcessArg(arg) ==
    IF StartsWith(arg, <<QUOTE>>) /\ EndsWith(arg, <<QUOTE>>)
    THEN LET inner == SubSeq(arg, 2, Len(arg) - 1)
         IN  IF StartsWith(inner, <<BACKSLASH, LETTER_X>>)
             THEN LET d == B64Decode(Drop(inner, 2))
                  IN  IF d.ok THEN Bytes(d.bytes) ELSE Str(inner)
             ELSE Str(Replace(inner, <<BACKSLASH, QUOTE>>, <<QUOTE>>))
    ELSE Str(arg)

ProcessArgs(args) == [i \in 1..Len(args) |-> ProcessArg(args[i])]

\* f.readlines() of a text file: universal newlines ("\n", "\r" and "\r\n" end
\* a line), the line ends dropped here because every use strips the line
LineEnds(text) ==
    {i \in 1..Len(text) :
        \/ text[i] = CARRIAGE_RETURN
        \/ text[i] = NEWLINE /\ (i = 1 \/ text[i - 1] # CARRIAGE_RETURN)}

\* where the line after the line end at e begins
AfterLineEnd(text, e) ==
    IF text[e] = CARRIAGE_RETURN /\ e < Len(text) /\ text[e + 1] = NEWLINE
    THEN e + 2 ELSE e + 1

ReadLines(text) ==
    LET ends == LineEnds(text)
        n == Cardinality(ends)
        end(k) == CHOOSE e \in ends : Cardinality({j \in ends : j < e}) = k - 1
        start(k) == IF k = 1 THEN 1 ELSE AfterLineEnd(text, end(k - 1))
        last == IF n = 0 THEN 1 ELSE AfterLineEnd(text, end(n))
        whole == [k \in 1..n |-> SubSeq(text, start(k), end(k) - 1)]
    IN  IF last <= Len(text) THEN Append(whole, SubSeq(text, last, Len(text)))
        ELSE whole

\* IsSkipped without the test for a comment
IsSkippedBlankOnly(stripped) == stripped = <<>>

\* a line the import loop skips: empty after strip(), or a comment
IsSkipped(stripped) == stripped = <<>> \/ StartsWith(stripped, <<HASH>>)

-----------------------------------------------------------------------------
(* Command names, as text.                                                 *)
CmdSET == <<83, 69, 84>>
CmdDEL == <<68, 69, 76>>
CmdHSET == <<72, 83, 69, 84>>
CmdRPUSH == <<82, 80, 85, 83, 72>>
CmdSADD == <<83, 65, 68, 68>>
CmdZADD == <<90, 65, 68, 68>>
CmdXADD == <<88, 65, 68, 68>>
CmdJSONSET == <<74, 83, 79, 78, 46, 83, 69, 84>>

(* The server behind r.execute_command: it executes a command it knows     *)
(* with an argument count it takes, and answers anything else with an      *)
(* error, which the client raises.                                         *)
ServerAccepts(command, args) ==
    \/ command = CmdSET /\ Len(args) = 2
    \/ command = CmdDEL /\ Len(args) >= 1
    \/ command = CmdHSET /\ Len(args) >= 3 /\ Len(args) % 2 = 1
    \/ command \in {CmdRPUSH, CmdSADD} /\ Len(args) >= 2

\* the target server's data: key |-> [type, value], the value a sequence of
\* byte strings (the one value of a string, the items of a list, the members of
\* a set in the order they were added, the fields and values of a hash)
EmptyDb == [k \in {} |-> [type |-> "none", value |-> <<>>]]

StoredType(command) ==
    CASE command = CmdRPUSH -> "list" [] command = CmdSADD -> "set"
      [] command = CmdHSET -> "hash" [] OTHER -> "string"

\* WRONGTYPE: the key holds a value of another kind
WrongType(command, args, db) ==
    /\ command \in {CmdRPUSH, CmdSADD, CmdHSET}
    /\ args[1] \in DOMAIN db
    /\ db[args[1]].type # StoredType(command)

RECURSIVE AddMembers(_, _, _)
AddMembers(members, args, i) ==
    IF i > Len(args) THEN members
    ELSE AddMembers(IF \E j \in 1..Len(members) : members[j] = args[i] THEN members
                    ELSE Append(members, args[i]), args, i + 1)

RECURSIVE SetFields(_, _, _)
SetFields(pairs, args, i) ==
    IF i + 1 > Len(args) THEN pairs
    ELSE SetFields(IF \E j \in 1..Len(pairs) : j % 2 = 1 /\ pairs[j] = args[i]
                   THEN [j \in 1..Len(pairs) |->
                            IF j % 2 = 0 /\ pairs[j - 1] = args[i] THEN args[i + 1] ELSE pairs[j]]
                   ELSE pairs \o <<args[i], args[i + 1]>>, args, i + 2)

\* the effect of an accepted command on the data
Apply(command, args, db) ==
    LET key == args[1]
        old == IF key \in DOMAIN db THEN db[key].value ELSE <<>>
        Put(value) == [k \in DOMAIN db \cup {key} |->
                          IF k = key THEN [type |-> StoredType(command), value |-> value]
                          ELSE db[k]]
    IN  CASE command = CmdSET -> Put(<<args[2]>>)
          [] command = CmdDEL ->
                [k \in DOMAIN db \ {args[i] : i \in 1..Len(args)} |-> db[k]]
          [] command = CmdRPUSH -> Put(old \o Tail(args))
          [] command = CmdSADD -> Put(AddMembers(old, args, 2))
          [] command = CmdHSET -> Put(SetFields(old, args, 2))
          [] OTHER -> db

\* the body of a JSON string literal: the characters between its quotes
RECURSIVE JsonStringBody(_, _, _)
JsonStringBody(b, i, out) ==
    IF i > Len(b) THEN [ok |-> TRUE, text |-> out]
    ELSE IF b[i] = QUOTE \/ b[i] < 32 THEN [ok |-> FALSE, text |-> <<>>]
    ELSE IF b[i] # BACKSLASH THEN JsonStringBody(b, i + 1, Append(out, b[i]))
    ELSE IF i = Len(b) THEN [ok |-> FALSE, text |-> <<>>]
    ELSE IF b[i + 1] \in {QUOTE, BACKSLASH, 47}
    THEN JsonStringBody(b, i + 2, Append(out, b[i + 1]))
    ELSE IF b[i + 1] \in {98, 102, 110, 114, 116}
    THEN JsonStringBody(b, i + 2,
                        Append(out, CASE b[i + 1] = 98 -> 8 [] b[i + 1] = 102 -> 12
                                      [] b[i + 1] = 110 -> 10 [] b[i + 1] = 114 -> 13
                                      [] OTHER -> 9))
    ELSE [ok |-> FALSE, text |-> <<>>]

(* json.loads on the texts the model's files hold: a string literal (with  *)
(* the escapes of one character; no \u escape stands in these files), a    *)
(* number of digits, or one of the bare words and empty containers.        *)
JsonLoads(text) ==
    LET s == Strip(text)
    IN  IF \/ s \in {<<123, 125>>, <<91, 93>>, <<110, 117, 108, 108>>,
                     <<116, 114, 117, 101>>, <<102, 97, 108, 115, 101>>}
           \/ s # <<>> /\ \A i \in 1..Len(s) : s[i] \in 48..57
        THEN [ok |-> TRUE, doc |-> [t |-> "json", v |-> s]]
        ELSE IF Len(s) >= 2 /\ s[1] = QUOTE /\ s[Len(s)] = QUOTE
        THEN LET body == JsonStringBody(SubSeq(s, 2, Len(s) - 1), 1, <<>>)
             IN  [ok |-> body.ok, doc |-> Str(body.text)]
        ELSE [ok |-> FALSE, doc |-> Str(<<>>)]

JsonLoadsOk(text) == JsonLoads(text).ok

\* json.dumps of a document that is one string of printable ASCII
JsonDumps(doc) ==
    <<QUOTE>> \o Replace(Replace(doc.v, <<BACKSLASH>>, <<BACKSLASH, BACKSLASH>>),
                         <<QUOTE>>, <<BACKSLASH, QUOTE>>) \o <<QUOTE>>

NoImport == [sent |-> <<>>, executed |-> <<>>, ok |-> 0, failed |-> 0, db |-> EmptyDb]

\* the body of the import loop for one line of the file
ImportLine(line, acc) ==
    LET stripped == Strip(line)
        parts == Tokenize(stripped)
        command == Upper(parts[1])
        args == ProcessArgs(Tail(parts))
        call == [command |-> command, args |-> [i \in 1..Len(args) |-> Wire(args[i])]]
    IN  IF IsSkipped(stripped) \/ parts = <<>> THEN acc
        ELSE IF command = CmdJSONSET
        THEN IF Len(args) >= 3 /\ JsonLoadsOk(Utf8Decode(Wire(args[3])).text)
                              /\ Utf8Decode(Wire(args[3])).ok
             THEN [acc EXCEPT !.sent = Append(@, call), !.executed = Append(@, call),
                              !.ok = @ + 1]
             ELSE [acc EXCEPT !.failed = @ + 1]
        ELSE IF ServerAccepts(command, args) /\ ~WrongType(command, call.args, acc.db)
        THEN [acc EXCEPT !.sent = Append(@, call), !.executed = Append(@, call),
                         !.ok = @ + 1, !.db = Apply(command, call.args, @)]
        ELSE [acc EXCEPT !.sent = Append(@, call), !.failed = @ + 1]

\* the import loop leaving at the first line that fails
RECURSIVE ImportLinesUntilFailure(_, _, _)
ImportLinesUntilFailure(lines, i, acc) ==
    IF i > Len(lines) \/ acc.failed > 0 THEN acc
    ELSE ImportLinesUntilFailure(lines, i + 1, ImportLine(lines[i], acc))

\* the import loop: every line in turn, a failing line counted and passed over
RECURSIVE ImportLines(_, _, _)
ImportLines(lines, i, acc) ==
    IF i > Len(lines) THEN acc
    ELSE ImportLines(lines, i + 1, ImportLine(lines[i], acc))

\* the import loop against a server that holds db
ImportInto(text, db) == ImportLines(ReadLines(text), 1, [NoImport EXCEPT !.db = db])

\* the import loop against an empty server
ImportText(text) == ImportInto(text, EmptyDb)

-----------------------------------------------------------------------------
(* The exporter's lines for one key (the branches on key_type).            *)

Line(parts) == Join(parts, <<SPACE>>) \o <<NEWLINE>>

ExportString(key, value) ==
    Line(<<CmdSET, _format_for_command(key), _format_for_command(value)>>)

\* type tags, as r.type(key) decoded
TypeString == <<115, 116, 114, 105, 110, 103>>
TypeHash == <<104, 97, 115, 104>>
TypeList == <<108, 105, 115, 116>>
TypeSet == <<115, 101, 116>>
TypeZset == <<122, 115, 101, 116>>
TypeStream == <<115, 116, 114, 101, 97, 109>>
TypeJson == <<82, 101, 74, 83, 79, 78, 45, 82, 76>>
TypeUnknown == <<85, 78, 75, 78, 79, 87, 78, 45, 84, 89, 80, 69>>
\* 'TSDB-TYPE', the type tag of a time series
TypeTimeSeries == <<84, 83, 68, 66, 45, 84, 89, 80, 69>>

FormatAll(values) == [i \in 1..Len(values) |-> _format_for_command(values[i])]

\* hash_data.items(): a sequence of [field, value] pairs
RECURSIVE FormatPairs(_)
FormatPairs(pairs) ==
    IF pairs = <<>> THEN <<>>
    ELSE <<_format_for_command(pairs[1].field), _format_for_command(pairs[1].value)>>
         \o FormatPairs(Tail(pairs))

\* zset_data: [member, score] pairs, the score as Python prints the float
RECURSIVE ScoredMembers(_)
ScoredMembers(pairs) ==
    IF pairs = <<>> THEN <<>>
    ELSE <<pairs[1].score, _format_for_command(pairs[1].member)>> \o ScoredMembers(Tail(pairs))

\* stream_data: [id, fields] entries, one XADD line for each
RECURSIVE StreamLines(_, _)
StreamLines(key_str, entries) ==
    IF entries = <<>> THEN <<>>
    ELSE Line(<<CmdXADD, key_str, entries[1].id>> \o FormatPairs(entries[1].fields))
         \o StreamLines(key_str, Tail(entries))

UnsupportedLine(key_type, key) ==
    <<35, 32, 85, 110, 115, 117, 112, 112, 111, 114, 116, 101, 100, 32, 116, 121, 112, 101, 32>>
    \o key_type \o <<32, 102, 111, 114, 32, 107, 101, 121, 32>>
    \o _format_for_command(key) \o <<NEWLINE>>

\* what the run writes to the file for one key: entry = [key, type, value], the
\* value a sequence: the one value of a string, the items of a list or set, the
\* pairs of a hash or sorted set, the entries of a stream
ExportKey(entry) ==
    LET key_str == _format_for_command(entry.key)
    IN  IF entry.type = TypeString THEN ExportString(entry.key, entry.value[1])
        ELSE IF entry.type = TypeHash
        THEN Line(<<CmdHSET, key_str>> \o FormatPairs(entry.value))
        ELSE IF entry.type = TypeList
        THEN Line(<<CmdDEL, key_str>>) \o Line(<<CmdRPUSH, key_str>> \o FormatAll(entry.value))
        ELSE IF entry.type = TypeSet
        THEN Line(<<CmdDEL, key_str>>) \o Line(<<CmdSADD, key_str>> \o FormatAll(entry.value))
        ELSE IF entry.type = TypeZset
        THEN Line(<<CmdDEL, key_str>>) \o Line(<<CmdZADD, key_str>> \o ScoredMembers(entry.value))
        ELSE IF entry.type = TypeStream
        THEN Line(<<CmdDEL, key_str>>) \o StreamLines(key_str, entry.value)
        ELSE IF entry.type = TypeJson
        THEN Line(<<CmdJSONSET, key_str, <<DOLLAR>>,
                    _format_for_command(Str(JsonDumps(entry.value[1])))>>)
        ELSE UnsupportedLine(entry.type, entry.key)

-----------------------------------------------------------------------------
(* DataCommands: the export orchestrator, the worker thread and import.    *)

NoThread == 0
KeysThreshold == 10000
ProgressEvery == 10

Status(kind, n) == [kind |-> kind, n |-> n]
NoStatus == Status("None", 0)
NoSummary == [present |-> FALSE]
NoFile == [exists |-> FALSE, text |-> <<>>]
max_iterations == 10000

\* a scan cursor as the client hands it back: text, an integer, or bytes
StrCursor(n) == [t |-> "str", v |-> n]
IntCursor(n) == [t |-> "int", v |-> n]
BytesCursor(n) == [t |-> "bytes", v |-> n]

\* seen_cursors = set(): the zero cursors in it, and how many of the numbered
\* cursors 1, 2, ... (the server numbers its cursors in the order it hands them
\* out, and every cursor handed out is added before the next is asked for)
NoCursors == [zeros |-> {}, upto |-> 0]

Unborn ==
    [pc |-> "unborn", all_keys |-> <<>>, i |-> 1, processed_keys |-> 0,
     cursor |-> StrCursor(0), seen_cursors |-> NoCursors, iteration_count |-> 0]

\* threading.Thread.is_alive(): started and its function not yet returned
IsAlive(t) == t # NoThread /\ workers[t].pc \notin {"unborn", "done"}

\* os.path.getsize: the bytes of the text
FileSize(text) ==
    Len(text) + Cardinality({i \in 1..Len(text) : text[i] >= 128})
              + Cardinality({i \in 1..Len(text) : text[i] >= 2048})
              + Cardinality({i \in 1..Len(text) : text[i] >= 65536})

Call(call, result) == [seq |-> fg.seq + 1, call |-> call, result |-> result]

Foreground == shell = "running" /\ fg.seq < MaxCalls

\* a start that takes no thread for running
NeverRunning == FALSE

\* the start guard: self._export_thread and self._export_thread.is_alive()
AlreadyRunning == IsAlive(export_thread)

\* a start whose rejection clears the stop event first
ExportStartRevoking ==
    /\ Foreground
    /\ IF AlreadyRunning
       THEN /\ fg' = Call("export", [kind |-> "already_running"])
            /\ stop_event' = FALSE
            /\ UNCHANGED <<export_thread, export_status, current_operation, workers>>
       ELSE \E t \in 1..MaxRuns :
            /\ workers[t].pc = "unborn"
            /\ \A u \in 1..(t - 1) : workers[u].pc # "unborn"
            /\ stop_event' = FALSE
            /\ current_operation' = "export"
            /\ export_status' = Status("Starting", 0)
            /\ export_thread' = t
            /\ workers' = [workers EXCEPT ![t].pc = "connect"]
            /\ fg' = Call("export", [kind |-> "started"])
    /\ UNCHANGED <<shell, files, state, source, managers, imp>>

\* _export(['--pattern', ...]): the start request
ExportStart ==
    /\ Foreground
    /\ IF AlreadyRunning
       THEN /\ fg' = Call("export", [kind |-> "already_running"])
            /\ UNCHANGED <<export_thread, export_status, current_operation, stop_event,
                           workers>>
       ELSE \E t \in 1..MaxRuns :
            /\ workers[t].pc = "unborn"
            /\ \A u \in 1..(t - 1) : workers[u].pc # "unborn"
            /\ stop_event' = FALSE
            /\ current_operation' = "export"
            /\ export_status' = Status("Starting", 0)
            /\ export_thread' = t
            /\ workers' = [workers EXCEPT ![t].pc = "connect"]
            /\ fg' = Call("export", [kind |-> "started"])
    /\ UNCHANGED <<shell, files, state, source, managers, imp>>

\* _export(['--cancel'])
ExportCancel ==
    /\ Foreground
    /\ IF IsAlive(export_thread)
       THEN stop_event' = TRUE /\ fg' = Call("cancel", [kind |-> "cancelling"])
       ELSE stop_event' = stop_event /\ fg' = Call("cancel", [kind |-> "not_running"])
    /\ UNCHANGED <<shell, export_thread, export_status, current_operation, workers, files,
                   state, source, managers, imp>>

\* _export(['--reset']) and _export(['--force-reset']): the parser knows neither
\* flag, parse_args raises SystemExit, which `except Exception` does not catch
ExportReset ==
    /\ Foreground
    /\ shell' = "exited"
    /\ fg' = Call("reset", [kind |-> "SystemExit"])
    /\ UNCHANGED <<export_thread, export_status, current_operation, stop_event, workers,
                   files, state, source, managers, imp>>

\* _status()
StatusCall ==
    /\ Foreground
    /\ fg' = Call("status",
                  [kind |-> IF IsAlive(export_thread) THEN "running"
                            ELSE IF export_status.kind = "Cancelled" THEN "cancelled"
                            ELSE "idle",
                   operation |-> IF IsAlive(export_thread) THEN current_operation ELSE "None",
                   status |-> IF IsAlive(export_thread) \/ export_status.kind = "Cancelled"
                              THEN export_status ELSE NoStatus,
                   last_export |-> state.last_export,
                   last_import |-> state.last_import])
    /\ UNCHANGED <<shell, export_thread, export_status, current_operation, stop_event,
                   workers, files, state, source, managers, imp>>

\* _import(['--file', <the file run t wrote>])
Import ==
    /\ Foreground
    /\ \E t \in 1..MaxRuns :
       /\ workers[t].pc \in {"unborn", "done"}
       /\ IF ~files[t].exists
          THEN /\ fg' = Call("import", [kind |-> "no_file"])
               /\ UNCHANGED <<imp, state>>
          ELSE LET run == ImportInto(files[t].text, imp.db)
               IN  /\ imp' = [file |-> t, sent |-> run.sent, executed |-> run.executed,
                              ok |-> run.ok, failed |-> run.failed, db |-> run.db]
                   /\ state' = [state EXCEPT !.last_import =
                                   [present |-> TRUE, file |-> t, commands_executed |-> run.ok,
                                    commands_failed |-> run.failed]]
                   /\ fg' = Call("import", [kind |-> "completed", ok |-> run.ok,
                                            failed |-> run.failed])
    /\ UNCHANGED <<shell, export_thread, export_status, current_operation, stop_event,
                   workers, files, source, managers>>

\* _import([]) and _import with an unknown flag: --file is required,
\* parse_args raises SystemExit inside the try, which `except Exception` does
\* not catch
ImportUsage ==
    /\ Foreground
    /\ shell' = "exited"
    /\ fg' = Call("import", [kind |-> "SystemExit"])
    /\ UNCHANGED <<export_thread, export_status, current_operation, stop_event, workers,
                   files, state, source, managers, imp>>

-----------------------------------------------------------------------------
(* _export_thread_func, one action per stretch between two points where    *)
(* the foreground thread can observe or signal the worker.                 *)

WorkerRuns(t, pc) == shell = "running" /\ workers[t].pc = pc

\* the clients are made; failure is "Error creating Redis client" and return
WorkerConnect ==
    \E t \in 1..MaxRuns, made \in BOOLEAN :
    /\ WorkerRuns(t, "connect")
    /\ IF made
       THEN workers' = [workers EXCEPT ![t].pc = "open"] /\ UNCHANGED export_status
       ELSE /\ workers' = [workers EXCEPT ![t].pc = "done"]
            /\ export_status' = Status("ErrorClient", 0)
    /\ UNCHANGED <<shell, export_thread, current_operation, stop_event, files, state,
                   source, managers, fg, imp>>

\* os.makedirs and open(filepath, 'w'); failure reaches the outer handler
WorkerOpen ==
    \E t \in 1..MaxRuns, opened \in BOOLEAN :
    /\ WorkerRuns(t, "open")
    /\ IF opened
       THEN /\ files' = [files EXCEPT ![t] = [exists |-> TRUE, text |-> <<>>]]
            /\ export_status' = Status("Scanning", 0)
            /\ workers' = [workers EXCEPT ![t].pc = "dbsize"]
            /\ UNCHANGED current_operation
       ELSE /\ export_status' = Status("ErrorExport", 0)
            /\ current_operation' = "None"
            /\ workers' = [workers EXCEPT ![t].pc = "done"]
            /\ UNCHANGED files
    /\ UNCHANGED <<shell, export_thread, stop_event, state, source, managers, fg, imp>>

\* r.dbsize() and r.keys(pattern); failure is "Error determining database size"
WorkerEnumerate ==
    \E t \in 1..MaxRuns, answered \in BOOLEAN :
    /\ WorkerRuns(t, "dbsize")
    /\ Len(source) < KeysThreshold
    /\ IF answered
       THEN /\ workers' = [workers EXCEPT ![t].pc = "keys", ![t].all_keys = source]
            /\ UNCHANGED export_status
       ELSE /\ workers' = [workers EXCEPT ![t].pc = "done"]
            /\ export_status' = Status("ErrorDbSize", 0)
    /\ UNCHANGED <<shell, export_thread, current_operation, stop_event, files, state,
                   source, managers, fg, imp>>

\* a loop that never looks at the stop event
NeverStops == FALSE

\* the stop check at the top of the loop body: self._stop_event.is_set()
ShouldStop == stop_event

\* one turn of `for key in all_keys`: the stop check, then the key
WorkerKey ==
    \E t \in 1..MaxRuns, read \in BOOLEAN :
    LET w == workers[t]
        n == w.processed_keys + 1
    IN  /\ WorkerRuns(t, "keys")
        /\ w.i <= Len(w.all_keys)
        /\ IF ShouldStop
           THEN /\ export_status' = Status("Cancelled", 0)
                /\ workers' = [workers EXCEPT ![t].pc = "done"]
                /\ UNCHANGED files
           ELSE IF read
           THEN /\ files' = [files EXCEPT ![t].text = @ \o ExportKey(w.all_keys[w.i])]
                /\ workers' = [workers EXCEPT ![t].i = @ + 1, ![t].processed_keys = n]
                /\ export_status' = IF n % ProgressEvery = 0 THEN Status("Exported", n)
                                    ELSE export_status
           ELSE \* "Error processing key": the key is passed over
                /\ workers' = [workers EXCEPT ![t].i = @ + 1]
                /\ UNCHANGED <<files, export_status>>
        /\ UNCHANGED <<shell, export_thread, current_operation, stop_event, state, source, managers,
                       fg, imp>>

\* r.dbsize() answers 10000 or more: the SCAN branch, its loop variables set
WorkerScanBegin ==
    \E t \in 1..MaxRuns, answered \in BOOLEAN, db_size \in {KeysThreshold, KeysThreshold + 1} :
    /\ WorkerRuns(t, "dbsize")
    /\ ~(db_size < KeysThreshold)
    /\ IF answered
       THEN /\ workers' = [workers EXCEPT ![t].pc = "scan", ![t].cursor = StrCursor(0),
                                          ![t].seen_cursors = NoCursors,
                                          ![t].iteration_count = 0]
            /\ UNCHANGED export_status
       ELSE /\ workers' = [workers EXCEPT ![t].pc = "done"]
            /\ export_status' = Status("ErrorDbSize", 0)
    /\ UNCHANGED <<shell, export_thread, current_operation, stop_event, files, state,
                   source, managers, fg, imp>>

\* cursor in seen_cursors
InSeen(cursor, seen_cursors) ==
    IF cursor.v = 0 THEN cursor \in seen_cursors.zeros
    ELSE cursor.t = "int" /\ cursor.v <= seen_cursors.upto

\* seen_cursors.add(cursor)
AddSeen(cursor, seen_cursors) ==
    IF cursor.v = 0 THEN [seen_cursors EXCEPT !.zeros = @ \cup {cursor}]
    ELSE [seen_cursors EXCEPT !.upto = IF cursor.v > @ THEN cursor.v ELSE @]

\* if isinstance(cursor, bytes): cursor = cursor.decode('utf-8')
DecodeCursor(cursor) == IF cursor.t = "bytes" THEN StrCursor(cursor.v) ELSE cursor

\* the cursors r.scan can hand back: zero as text, integer or bytes, a cursor
\* not handed out before, a cursor handed out before
ScanCursors(seen_cursors) ==
    {StrCursor(0), IntCursor(0), BytesCursor(0), IntCursor(seen_cursors.upto + 1)}
    \cup (IF seen_cursors.upto >= 1 THEN {IntCursor(1)} ELSE {})

\* the keys of one page: none, or one key of the database, while fewer than
\* MaxKeys keys have been written
ScanPages(w) ==
    {<<>>} \cup (IF w.processed_keys < MaxKeys THEN { <<source[j]>> : j \in 1..Len(source) }
                 ELSE {})

\* a loop with no limit on its iterations
NoCap(iteration_count) == TRUE

\* while iteration_count < max_iterations
WithinCap(iteration_count) == iteration_count < max_iterations

\* one turn of the while loop: the stop check, the cursor-loop check, r.scan,
\* the keys of the page, the completion check; `answers` are the pairs of a
\* cursor and a page that r.scan can hand back at this turn
ScanTurn(t, raised, read, answers) ==
    LET w == workers[t]
        seen == AddSeen(w.cursor, w.seen_cursors)
    IN  /\ WorkerRuns(t, "scan")
        /\ WithinCap(w.iteration_count)
        /\ IF ShouldStop
           THEN /\ export_status' = Status("Cancelled", 0)
                /\ workers' = [workers EXCEPT ![t].pc = "done",
                                              ![t].iteration_count = @ + 1]
                /\ UNCHANGED files
           ELSE IF InSeen(w.cursor, w.seen_cursors) /\ w.cursor # StrCursor(0)
           THEN \* "Cursor has been seen before. Breaking loop."
                /\ workers' = [workers EXCEPT ![t].pc = "limit",
                                              ![t].iteration_count = @ + 1]
                /\ UNCHANGED <<files, export_status>>
           ELSE IF raised
           THEN \* "Error during SCAN": the cursor is the one asked with
                /\ workers' = [workers EXCEPT
                                  ![t].pc = IF w.cursor = StrCursor(0) THEN "limit" ELSE "scan",
                                  ![t].seen_cursors = seen,
                                  ![t].iteration_count = @ + 1]
                /\ UNCHANGED <<files, export_status>>
           ELSE \E answer \in answers :
                LET cursor == DecodeCursor(answer[1])
                    keys == answer[2]
                    n == w.processed_keys + 1
                    written == keys # <<>> /\ read
                IN  /\ files' = IF written
                                THEN [files EXCEPT ![t].text = @ \o ExportKey(keys[1])]
                                ELSE files
                    /\ export_status' = IF written /\ n % ProgressEvery = 0
                                        THEN Status("Exported", n) ELSE export_status
                    /\ workers' = [workers EXCEPT
                                      ![t].pc = IF cursor = StrCursor(0) THEN "limit" ELSE "scan",
                                      ![t].cursor = cursor,
                                      ![t].seen_cursors = seen,
                                      ![t].processed_keys = IF written THEN n ELSE @,
                                      ![t].iteration_count = @ + 1]
        /\ UNCHANGED <<shell, export_thread, current_operation, stop_event, state, source, managers,
                       fg, imp>>

\* a turn against a server that may answer anything
WorkerScan ==
    \E t \in 1..MaxRuns, raised \in BOOLEAN, read \in BOOLEAN :
        ScanTurn(t, raised, read,
                 ScanCursors(AddSeen(workers[t].cursor, workers[t].seen_cursors))
                     \X ScanPages(workers[t]))

\* a server that walks the database once, a key a page: the cursor asked with
\* is the number of the pages before, the cursor handed back an integer, and
\* after the last page the zero in any of its forms
PagedAnswers(w) ==
    LET page == w.cursor.v + 1
    IN  (IF page < Len(source) THEN {IntCursor(page)}
         ELSE {IntCursor(0), StrCursor(0), BytesCursor(0)})
        \X {IF page <= Len(source) THEN <<source[page]>> ELSE <<>>}

\* a turn against that server, every key read
WorkerScanPaged ==
    \E t \in 1..MaxRuns : ScanTurn(t, FALSE, TRUE, PagedAnswers(workers[t]))

\* after the loop, left by a break or because the while condition is false:
\* the check of the iteration limit
WorkerScanLimit ==
    \E t \in 1..MaxRuns :
    /\ \/ WorkerRuns(t, "scan") /\ ~WithinCap(workers[t].iteration_count)
       \/ WorkerRuns(t, "limit")
    /\ export_status' = IF workers[t].iteration_count >= max_iterations
                        THEN Status("SafetyLimit", max_iterations) ELSE export_status
    /\ workers' = [workers EXCEPT ![t].pc = "scanned"]
    /\ UNCHANGED <<shell, export_thread, current_operation, stop_event, files, state,
                   source, managers, fg, imp>>

\* the loop is over: "Completed exporting n keys." and the file is closed
WorkerFinish ==
    \E t \in 1..MaxRuns :
    /\ \/ WorkerRuns(t, "keys") /\ workers[t].i > Len(workers[t].all_keys)
       \/ WorkerRuns(t, "scanned")
    /\ export_status' = Status("Completed", workers[t].processed_keys)
    /\ workers' = [workers EXCEPT ![t].pc = "persist"]
    /\ UNCHANGED <<shell, export_thread, current_operation, stop_event, files, state,
                   source, managers, fg, imp>>

\* a run that persists its summary for an empty file as well
WorkerPersistAlways ==
    \E t \in 1..MaxRuns :
    /\ WorkerRuns(t, "persist")
    /\ state' = [state EXCEPT !.last_export =
                    [present |-> TRUE, pattern |-> "*", file |-> t,
                     keys_exported |-> workers[t].processed_keys,
                     file_size |-> FileSize(files[t].text)]]
    /\ export_status' = IF FileSize(files[t].text) = 0 THEN Status("EmptyFile", 0)
                        ELSE Status("Success", workers[t].processed_keys)
    /\ current_operation' = "None"
    /\ workers' = [workers EXCEPT ![t].pc = "done"]
    /\ UNCHANGED <<shell, export_thread, stop_event, files, source, managers, fg, imp>>

\* the file is checked and the summary persisted
WorkerPersist ==
    \E t \in 1..MaxRuns :
    /\ WorkerRuns(t, "persist")
    /\ IF FileSize(files[t].text) = 0
       THEN export_status' = Status("EmptyFile", 0) /\ UNCHANGED state
       ELSE /\ state' = [state EXCEPT !.last_export =
                            [present |-> TRUE, pattern |-> "*", file |-> t,
                             keys_exported |-> workers[t].processed_keys,
                             file_size |-> FileSize(files[t].text)]]
            /\ export_status' = Status("Success", workers[t].processed_keys)
    /\ current_operation' = "None"
    /\ workers' = [workers EXCEPT ![t].pc = "done"]
    /\ UNCHANGED <<shell, export_thread, stop_event, files, source, managers, fg, imp>>

-----------------------------------------------------------------------------
(* The databases the runs export: up to MaxKeys keys, of these kinds.      *)

SourceKeys == {Bytes(<<65>>), Bytes(<<66>>), Bytes(<<255>>)}

SourcePayloads ==
    { [type |-> TypeString, value |-> <<Bytes(<<0, 1>>)>>],
      [type |-> TypeList, value |-> <<Bytes(<<97>>), Bytes(<<98, 32, 99>>)>>],
      [type |-> TypeUnknown, value |-> <<>>] }

SourceEntries ==
    { [key |-> k, type |-> p.type, value |-> p.value] : k \in SourceKeys, p \in SourcePayloads }

Sources ==
    { s \in UNION { [1..n -> SourceEntries] : n \in 0..MaxKeys } :
        \A i, j \in 1..Len(s) : i # j => s[i].key # s[j].key }

\* the namespaces of the state file the model follows, and a namespace's value
\* (0: the namespace is not in the dict)
Extensions == {"data", "connection"}
StateValues == {1, 2}
NoDict == [e \in Extensions |-> 0]

\* the connection extension before its construction (an id of 0 is None):
\* _connections is the one dict ConnectionCommands and ConnectionManager share
\* (set_connections keeps the reference), as its ids in insertion order;
\* _current_connection_id is ConnectionCommands' own, manager_id is
\* ConnectionManager._current_connection_id, persisted is the 'connection'
\* namespace of the state file
NoConnection ==
    [_connections |-> <<>>, _current_connection_id |-> 0, manager_id |-> 0,
     persisted |-> [connections |-> <<>>, current_connection_id |-> 0]]

\* no StateManager constructed yet, no state file written
NoManagers ==
    [heap |-> <<>>, handles |-> <<>>, _instance |-> 0, state_file |-> NoDict,
     read |-> [handle |-> 0, extension |-> "none", value |-> 0],
     connection |-> NoConnection,
     cluster |-> [active |-> FALSE, running |-> FALSE, nodes |-> <<>>],
     command_history |-> [state |-> <<>>, state_manager |-> <<>>],
     data |-> [dicts |-> <<>>, namespace |-> 0,
               export |-> [pc |-> "idle", state |-> 0],
               import |-> [pc |-> "idle", state |-> 0]]]

\* DataCommands.__init__: no thread, no status, no operation, the event clear
Fresh ==
    /\ shell = "running"
    /\ export_thread = NoThread
    /\ export_status = NoStatus
    /\ current_operation = "None"
    /\ stop_event = FALSE
    /\ workers = [t \in 1..MaxRuns |-> Unborn]
    /\ state = [last_export |-> NoSummary, last_import |-> NoSummary]
    /\ managers = NoManagers

\* the object constructed, no call made, the target server empty
Constructed ==
    /\ Fresh
    /\ fg = [seq |-> 0, call |-> "none", result |-> [kind |-> "none"]]
    /\ imp = [file |-> NoThread, sent |-> <<>>, executed |-> <<>>, ok |-> 0, failed |-> 0,
             db |-> EmptyDb]

Init ==
    /\ Constructed
    /\ files = [t \in 1..MaxRuns |-> NoFile]
    /\ source \in Sources

Next ==
    \/ ExportStart
    \/ ExportCancel
    \/ ExportReset
    \/ StatusCall
    \/ Import
    \/ ImportUsage
    \/ WorkerConnect
    \/ WorkerOpen
    \/ WorkerEnumerate
    \/ WorkerKey
    \/ WorkerFinish
    \/ WorkerPersist

Spec == Init /\ [][Next]_vars

-----------------------------------------------------------------------------
(* The codec on its own: one key is written by the exporter's branch for   *)
(* its type and the file is read back by the import loop.                  *)

ByteAlphabet == {0, 10, 32, 34, 65, 92, 120, 169, 195, 255}

TextAlphabet == {32, 34, 65, 92, 120, 233}

SeqsUpTo(S, n) == UNION { [1..k -> S] : k \in 0..n }

\* the keys and values the encoder is given: bytes, or text
CodecValues ==
    { Bytes(b) : b \in SeqsUpTo(ByteAlphabet, MaxLen) }
    \cup { Str(s) : s \in SeqsUpTo(TextAlphabet, MaxLen) }

\* the other arguments of the line: bytes that go through base64, and text with
\* a space and a quote in it
Partners == {Bytes(<<255, 0>>), Str(<<97, 32, 34>>)}

\* a time series "ts" with the samples (1000, 10.5) and (2000, 20.3)
TimeSeriesSources ==
    { <<[key |-> Str(<<116, 115>>), type |-> TypeTimeSeries,
         value |-> <<Str(<<49, 48, 48, 48>>), Str(<<49, 48, 46, 53>>),
                     Str(<<50, 48, 48, 48>>), Str(<<50, 48, 46, 51>>)>>]>> }

\* one key: v as the key of a string, as the value of a string, as the first
\* item of a list
CodecSources ==
    { <<[key |-> v, type |-> TypeString, value |-> <<p>>]>> : v \in CodecValues, p \in Partners }
    \cup { <<[key |-> p, type |-> TypeString, value |-> <<v>>]>> : v \in CodecValues, p \in Partners }
    \cup { <<[key |-> p, type |-> TypeList, value |-> <<v, p>>]>> : v \in CodecValues, p \in Partners }

CodecInit ==
    /\ Constructed
    /\ files = [t \in 1..MaxRuns |-> NoFile]
    /\ source \in CodecSources

\* the loop body of the export for the one key, its lines written to the file
CodecExport ==
    /\ ~files[1].exists
    /\ files' = [files EXCEPT ![1] = [exists |-> TRUE, text |-> ExportKey(source[1])]]
    /\ UNCHANGED <<shell, export_thread, export_status, current_operation, stop_event,
                   workers, state, source, managers, fg, imp>>

\* the import loop over that file
CodecImport ==
    /\ files[1].exists
    /\ imp.file = NoThread
    /\ LET run == ImportText(files[1].text)
       IN  imp' = [file |-> 1, sent |-> run.sent, executed |-> run.executed,
                   ok |-> run.ok, failed |-> run.failed, db |-> run.db]
    /\ UNCHANGED <<shell, export_thread, export_status, current_operation, stop_event,
                   workers, files, state, source, managers, fg>>

CodecNext ==
    \/ CodecExport
    \/ CodecImport

CodecSpec == CodecInit /\ [][CodecNext]_vars

-----------------------------------------------------------------------------
(* The same two steps for keys of the module types: a time series, and     *)
(* JSON documents that are one string.                                     *)

\* a document under a text key and under a key of bytes that are not UTF-8
JsonSources ==
    { <<[key |-> k, type |-> TypeJson, value |-> <<Str(d)>>]>> :
        k \in {Str(<<107>>), Bytes(<<255>>)}, d \in SeqsUpTo({SPACE, QUOTE, BACKSLASH, 110, 120}, MaxLen) }

ModuleInit ==
    /\ Constructed
    /\ files = [t \in 1..MaxRuns |-> NoFile]
    /\ source \in TimeSeriesSources \cup JsonSources

ModuleSpec == ModuleInit /\ [][CodecNext]_vars

-----------------------------------------------------------------------------
(* Import of a file written by hand: lines the server accepts, lines that  *)
(* raise, comments and blank lines, in any order.                          *)

\* SET "a" "1" and DEL "a"
AcceptedLines ==
    { Join(<<CmdSET, Quoted(<<97>>), Quoted(<<49>>)>>, <<SPACE>>),
      Join(<<CmdDEL, Quoted(<<97>>)>>, <<SPACE>>) }

\* FOO "a" (no such command) and SET "a" (an argument is missing)
RejectedLines ==
    { Join(<<<<70, 79, 79>>, Quoted(<<97>>)>>, <<SPACE>>),
      Join(<<CmdSET, Quoted(<<97>>)>>, <<SPACE>>) }

\* a comment and a line of spaces
SkippedLines == { <<HASH, SPACE, 110, 111, 116, 101>>, <<SPACE, SPACE>> }

FileOf(lines) == IF lines = <<>> THEN <<>> ELSE Join(lines, <<NEWLINE>>) \o <<NEWLINE>>

ImportFiles ==
    { FileOf(ls) : ls \in SeqsUpTo(AcceptedLines \cup RejectedLines \cup SkippedLines, MaxLines) }

ImportInit ==
    /\ Constructed
    /\ \E text \in ImportFiles :
          files = [t \in 1..MaxRuns |-> IF t = 1 THEN [exists |-> TRUE, text |-> text]
                                        ELSE NoFile]
    /\ source = <<>>

ImportSpec == ImportInit /\ [][Import]_vars

-----------------------------------------------------------------------------
(* The export of a database of 10000 keys or more: the SCAN branch, with   *)
(* a server free to answer each scan call with any cursor, page or error.  *)

ScanSources ==
    { <<>>,
      <<[key |-> Bytes(<<65>>), type |-> TypeString, value |-> <<Bytes(<<49>>)>>]>> }

\* the object after MaxCalls - 1 status calls: one call is left, the start
ScanInit ==
    /\ Fresh
    /\ fg = [seq |-> MaxCalls - 1, call |-> "status",
             result |-> [kind |-> "idle", operation |-> "None", status |-> NoStatus,
                         last_export |-> NoSummary, last_import |-> NoSummary]]
    /\ imp = [file |-> NoThread, sent |-> <<>>, executed |-> <<>>, ok |-> 0, failed |-> 0,
             db |-> EmptyDb]
    /\ files = [t \in 1..MaxRuns |-> NoFile]
    /\ source \in ScanSources

ScanSpec ==
    ScanInit /\ [][ExportStart \/ WorkerConnect \/ WorkerOpen \/ WorkerScanBegin
                    \/ WorkerScan \/ WorkerScanLimit \/ WorkerFinish \/ WorkerPersist]_vars

\* the SCAN branch against the paging server, over the databases of Sources
PagedInit ==
    /\ Fresh
    /\ fg = [seq |-> MaxCalls - 1, call |-> "status",
             result |-> [kind |-> "idle", operation |-> "None", status |-> NoStatus,
                         last_export |-> NoSummary, last_import |-> NoSummary]]
    /\ imp = [file |-> NoThread, sent |-> <<>>, executed |-> <<>>, ok |-> 0, failed |-> 0,
             db |-> EmptyDb]
    /\ files = [t \in 1..MaxRuns |-> NoFile]
    /\ source \in Sources

PagedSpec ==
    PagedInit /\ [][ExportStart \/ WorkerConnect \/ WorkerOpen \/ WorkerScanBegin
                      \/ WorkerScanPaged \/ WorkerScanLimit \/ WorkerFinish
                      \/ WorkerPersist]_vars

-----------------------------------------------------------------------------
(* Replay: the file written for one key, imported again and again into a   *)
(* server that keeps its data between the imports.                         *)

\* a string or a list of one item, under every key of the codec runs, and the
\* hash "A" with the one field f
ReplaySources ==
    { <<[key |-> v, type |-> ty, value |-> <<p>>]>> :
        v \in CodecValues, p \in Partners, ty \in {TypeString, TypeList} }
    \cup { <<[key |-> Str(<<65>>), type |-> TypeHash,
              value |-> <<[field |-> Str(<<102>>), value |-> Str(<<118>>)]>>]>> }

\* what the target holds before the first import: nothing, or the key "A" as a
\* string, as a list, or as a hash with the one field g
ReplayInit ==
    /\ Fresh
    /\ fg = [seq |-> 0, call |-> "none", result |-> [kind |-> "none"]]
    /\ \E db \in { EmptyDb,
                    [k \in {<<65>>} |-> [type |-> "string", value |-> <<<<120>>>>]],
                    [k \in {<<65>>} |-> [type |-> "list", value |-> <<<<120>>>>]],
                    [k \in {<<65>>} |-> [type |-> "hash", value |-> <<<<103>>, <<120>>>>]] } :
          imp = [file |-> NoThread, sent |-> <<>>, executed |-> <<>>, ok |-> 0, failed |-> 0,
                 db |-> db]
    /\ files = [t \in 1..MaxRuns |-> NoFile]
    /\ source \in ReplaySources

ReplaySpec == ReplayInit /\ [][CodecExport \/ Import]_vars

-----------------------------------------------------------------------------
(* The two StateManager classes: redis_shell.state (used by the shell and  *)
(* the data extension) and redis_shell.state_manager (used by the          *)
(* connection and cluster extensions), over one state file.                *)

MaxHandles == 3

Others ==
    <<shell, export_thread, export_status, current_operation, stop_event, workers, files,
      state, source, fg, imp>>

\* the object a handle refers to
ObjectOf(h) == managers.heap[managers.handles[h]]

\* redis_shell.state.StateManager(): a new object, its _state loaded from the file
NewState ==
    /\ Len(managers.handles) < MaxHandles
    /\ managers' = [managers EXCEPT
                       !.heap = Append(@, [cls |-> "state", _state |-> managers.state_file]),
                       !.handles = Append(@, Len(managers.heap) + 1)]
    /\ UNCHANGED Others

\* redis_shell.state_manager.StateManager(): __new__ hands out cls._instance,
\* made and loaded at the first call
NewStateManager ==
    /\ Len(managers.handles) < MaxHandles
    /\ IF managers._instance = 0
       THEN managers' = [managers EXCEPT
                            !.heap = Append(@, [cls |-> "state_manager",
                                                _state |-> managers.state_file]),
                            !._instance = Len(managers.heap) + 1,
                            !.handles = Append(@, Len(managers.heap) + 1)]
       ELSE managers' = [managers EXCEPT !.handles = Append(@, managers._instance)]
    /\ UNCHANGED Others

\* set_extension_state(extension, value): the object's dict is changed and the
\* whole dict written over the file
SetExtensionState ==
    \E h \in 1..Len(managers.handles), e \in Extensions, v \in StateValues :
    LET o == managers.handles[h]
        dict == [managers.heap[o]._state EXCEPT ![e] = v]
    IN  /\ managers' = [managers EXCEPT !.heap[o]._state = dict, !.state_file = dict]
        /\ UNCHANGED Others

\* get_extension_state(extension): state_manager reads the file again first
\* (refresh_state), state answers from the object's dict
GetExtensionState ==
    \E h \in 1..Len(managers.handles), e \in Extensions :
    LET o == managers.handles[h]
        dict == IF managers.heap[o].cls = "state_manager" THEN managers.state_file
                ELSE managers.heap[o]._state
    IN  /\ managers' = [managers EXCEPT !.heap[o]._state = dict,
                                        !.read = [handle |-> h, extension |-> e,
                                                  value |-> dict[e]]]
        /\ UNCHANGED Others

StateInit ==
    /\ Constructed
    /\ files = [t \in 1..MaxRuns |-> NoFile]
    /\ source = <<>>

StateSpec ==
    StateInit /\ [][NewState \/ NewStateManager \/ SetExtensionState \/ GetExtensionState]_vars

-----------------------------------------------------------------------------
(* The two places that persist a summary, step by step: the export worker  *)
(* (background thread) and _import (foreground) read the 'data' namespace  *)
(* of the one StateManager object of DataCommands, set their key in the    *)
(* dict they got, and hand the dict to set_extension_state.                *)
(* managers.data.dicts are the dict objects, each with the two keys (0: the *)
(* key is absent); namespace is the dict that self._state['data'] refers   *)
(* to (0: no such key); a thread's state is the dict its local refers to.  *)

\* one step of `thread` through
\*     state = self._state.get_extension_state('data') or {}
\*     state['last_export' | 'last_import'] = {...}
\*     self._state.set_extension_state('data', state)
\* get_extension_state hands out the namespace's own dict; a missing namespace
\* gives a new {} (the default of dict.get), and so does an empty one (`or {}`)
PersistSummary(thread, n) ==
    LET d == managers.data
        me == d[thread]
        held == d.namespace # 0
                /\ d.dicts[d.namespace] # [last_export |-> 0, last_import |-> 0]
    IN  /\ managers' =
              [managers EXCEPT !.data =
                  IF me.pc \in {"idle", "done"}
                  THEN IF held
                       THEN [d EXCEPT ![thread] = [pc |-> "read", state |-> d.namespace]]
                       ELSE [d EXCEPT !.dicts = Append(d.dicts,
                                                       [last_export |-> 0, last_import |-> 0]),
                                      ![thread] = [pc |-> "read", state |-> Len(d.dicts) + 1]]
                  ELSE IF me.pc = "read"
                  THEN [d EXCEPT !.dicts[me.state] =
                                     IF thread = "export"
                                     THEN [d.dicts[me.state] EXCEPT !.last_export = n]
                                     ELSE [d.dicts[me.state] EXCEPT !.last_import = n],
                                 ![thread].pc = "assigned"]
                  ELSE [d EXCEPT !.namespace = me.state, ![thread].pc = "done"]]
        /\ UNCHANGED Others

\* the export worker at lines 770-779
ExportPersist == \E n \in 1..MaxRuns : PersistSummary("export", n)

\* _import at lines 993-1001
ImportPersist == \E n \in 1..MaxRuns : PersistSummary("import", n)

\* the state file as an earlier session left it: no 'data' namespace, or one
\* with the summary of an export, of an import, or of both
SummaryInit ==
    /\ shell = "running"
    /\ export_thread = NoThread
    /\ export_status = NoStatus
    /\ current_operation = "None"
    /\ stop_event = FALSE
    /\ workers = [t \in 1..MaxRuns |-> Unborn]
    /\ state = [last_export |-> NoSummary, last_import |-> NoSummary]
    /\ fg = [seq |-> 0, call |-> "none", result |-> [kind |-> "none"]]
    /\ imp = [file |-> NoThread, sent |-> <<>>, executed |-> <<>>, ok |-> 0, failed |-> 0,
             db |-> EmptyDb]
    /\ files = [t \in 1..MaxRuns |-> NoFile]
    /\ source = <<>>
    /\ \E before \in {<<>>, <<[last_export |-> 1, last_import |-> 0]>>,
                       <<[last_export |-> 0, last_import |-> 1]>>,
                       <<[last_export |-> 1, last_import |-> 1]>>} :
          managers = [NoManagers EXCEPT !.data.dicts = before,
                                        !.data.namespace = Len(before)]

SummarySpec == SummaryInit /\ [][ExportPersist \/ ImportPersist]_vars

-----------------------------------------------------------------------------
(* The connection extension: ConnectionCommands over the ConnectionManager *)
(* singleton and the state file.                                           *)

MaxConnections == 3

\* the ids of a dict of connections
IdsOf(connections) == { connections[i] : i \in 1..Len(connections) }

\* the 'connection' namespaces a state file left by an earlier session can
\* hold: connections under distinct ids, and a current id among them or none
\* (extension_manager writes the manager's current id after a create)
PersistedConnections ==
    { p \in [connections : { q \in UNION { [1..n -> 1..MaxConnections] :
                                               n \in 0..MaxConnections } :
                                \A i, j \in 1..Len(q) : i # j => q[i] # q[j] },
              current_connection_id : 0..MaxConnections] :
        p.current_connection_id \in {0} \cup IdsOf(p.connections) }

\* _save_connections: the extension's own dict and id go to the state file
SaveConnections(c) ==
    [c EXCEPT !.persisted = [connections |-> c._connections,
                             current_connection_id |-> c._current_connection_id]]

\* _list: the ids whose row carries the mark of the current connection
ListedCurrent ==
    { id \in IdsOf(managers.connection._connections) :
        id = managers.connection._current_connection_id }

\* the connection commands leave the data extension alone
ConnectionCall(call, result, connection) ==
    /\ fg.seq < MaxCalls
    /\ fg' = Call(call, result)
    /\ managers' = [managers EXCEPT !.connection = connection]
    /\ UNCHANGED <<shell, export_thread, export_status, current_operation, stop_event,
                   workers, files, state, source, imp>>

\* an id generator that counts the connections instead of looking for a gap
CountPlusOne(existing_ids, connection_id) == Cardinality(existing_ids) + connection_id

\* _create: connection_id = 1; while connection_id in existing_ids:
\* connection_id += 1 (the ids are the decimal strings of these numbers)
RECURSIVE FirstFree(_, _)
FirstFree(existing_ids, connection_id) ==
    IF connection_id \in existing_ids
    THEN FirstFree(existing_ids, connection_id + 1)
    ELSE connection_id

\* _create: the first free id; a server that does not answer the ping leaves
\* everything as it was; add_connection makes the first connection the
\* manager's current one
ConnectionCreate ==
    \E ping \in BOOLEAN :
    LET c == managers.connection
        connection_id == FirstFree(IdsOf(c._connections), 1)
        added == [c EXCEPT !._connections = Append(@, connection_id),
                           !.manager_id = IF Len(c._connections) = 0 THEN connection_id
                                          ELSE @]
    IN  /\ Len(c._connections) < MaxConnections
        /\ IF ping
           THEN ConnectionCall("create", [kind |-> "created", id |-> connection_id],
                               SaveConnections(added))
           ELSE ConnectionCall("create", [kind |-> "error", id |-> connection_id], c)

\* _destroy: an unknown id is refused; remove_connection moves the manager's
\* id to the first connection left when the current one goes
ConnectionDestroy ==
    \E connection_id \in 1..MaxConnections :
    LET c == managers.connection
        left == SelectSeq(c._connections, LAMBDA x : x # connection_id)
        removed == [c EXCEPT !._connections = left,
                             !.manager_id = IF @ # connection_id THEN @
                                            ELSE IF Len(left) > 0 THEN left[1] ELSE 0]
    IN  IF connection_id \notin IdsOf(c._connections)
        THEN ConnectionCall("destroy", [kind |-> "error", id |-> connection_id], c)
        ELSE ConnectionCall("destroy", [kind |-> "removed", id |-> connection_id],
                            SaveConnections(removed))

\* _use: an unknown id is refused; set_current_connection_id on the manager,
\* then _save_connections, then the SWITCH_CONNECTION answer
ConnectionUse ==
    \E connection_id \in 1..MaxConnections :
    LET c == managers.connection
        switched == [c EXCEPT !.manager_id = connection_id]
    IN  IF connection_id \notin IdsOf(c._connections)
        THEN ConnectionCall("use", [kind |-> "error", id |-> connection_id], c)
        ELSE ConnectionCall("use", [kind |-> "SWITCH_CONNECTION", id |-> connection_id],
                            SaveConnections(switched))

\* ConnectionCommands.__init__ in a new process, over a state file of an
\* earlier session: the dict and the id are loaded from the file and handed
\* to the connection manager, whose own id is replaced only by an id that is
\* not None
ConnectionStart ==
    /\ shell = "running"
    /\ export_thread = NoThread
    /\ export_status = NoStatus
    /\ current_operation = "None"
    /\ stop_event = FALSE
    /\ workers = [t \in 1..MaxRuns |-> Unborn]
    /\ state = [last_export |-> NoSummary, last_import |-> NoSummary]
    /\ fg = [seq |-> 0, call |-> "none", result |-> [kind |-> "none"]]
    /\ imp = [file |-> NoThread, sent |-> <<>>, executed |-> <<>>, ok |-> 0, failed |-> 0,
             db |-> EmptyDb]
    /\ files = [t \in 1..MaxRuns |-> NoFile]
    /\ source = <<>>
    /\ \E p \in PersistedConnections :
          managers = [NoManagers EXCEPT !.connection =
                         [_connections |-> p.connections,
                          _current_connection_id |-> p.current_connection_id,
                          manager_id |-> p.current_connection_id,
                          persisted |-> p]]

ConnectionNext ==
    \/ ConnectionCreate
    \/ ConnectionDestroy
    \/ ConnectionUse

ConnectionSpec == ConnectionStart /\ [][ConnectionNext]_vars

\* RedisCLI.__init__ in a new process: the connection manager has no
\* connection, so the default connection '1' is added and made current; then
\* the extension manager constructs ConnectionCommands, whose __init__ hands
\* the dict and the id of the state file to set_connections: the registry is
\* replaced, the current id only by an id that is not None
ShellStart ==
    /\ shell = "running"
    /\ export_thread = NoThread
    /\ export_status = NoStatus
    /\ current_operation = "None"
    /\ stop_event = FALSE
    /\ workers = [t \in 1..MaxRuns |-> Unborn]
    /\ state = [last_export |-> NoSummary, last_import |-> NoSummary]
    /\ fg = [seq |-> 0, call |-> "none", result |-> [kind |-> "none"]]
    /\ imp = [file |-> NoThread, sent |-> <<>>, executed |-> <<>>, ok |-> 0, failed |-> 0,
             db |-> EmptyDb]
    /\ files = [t \in 1..MaxRuns |-> NoFile]
    /\ source = <<>>
    /\ \E p \in PersistedConnections :
          managers = [NoManagers EXCEPT !.connection =
                         [_connections |-> p.connections,
                          _current_connection_id |-> p.current_connection_id,
                          manager_id |-> IF p.current_connection_id # 0
                                         THEN p.current_connection_id ELSE 1,
                          persisted |-> p]]

ShellSpec == ShellStart /\ [][ConnectionNext]_vars

-----------------------------------------------------------------------------
(* The cluster extension: ClusterCommands over ClusterDeployer.  A node is *)
(* [up, rdb, loaded]: its process runs, the data in its cluster-<port>.rdb *)
(* file (0: no file, or no keys), the data it loaded when it was launched. *)

MaxNodes == 2

\* ClusterDeployer.start_nodes: if a port is in use, cleanup() stops every
\* node and removes the files; then, port by port, an existing RDB file is
\* removed (a failure of os.remove is only printed) and the server launched,
\* which loads what is left of the file
StartNodes(nodes, removed) ==
    [p \in 1..MaxNodes |->
        LET rdb == IF (\E q \in 1..Len(nodes) : nodes[q].up) \/ removed \/ p > Len(nodes)
                   THEN 0 ELSE nodes[p].rdb
        IN  [up |-> TRUE, rdb |-> rdb, loaded |-> rdb]]

\* _deploy: start_nodes, create_cluster (FLUSHALL on every node), and the
\* configuration says active and running
ClusterDeploy ==
    \E removed \in BOOLEAN :
    /\ fg.seq < MaxCalls
    /\ ~managers.cluster.active
    /\ fg' = Call("deploy", [kind |-> "deployed"])
    /\ managers' = [managers EXCEPT !.cluster =
                       [active |-> TRUE, running |-> TRUE,
                        nodes |-> [p \in 1..MaxNodes |->
                                     [StartNodes(managers.cluster.nodes, removed)[p]
                                         EXCEPT !.loaded = 0]]]]
    /\ UNCHANGED <<shell, export_thread, export_status, current_operation, stop_event,
                   workers, files, state, source, imp>>

\* _stop: every node that answers is shut down with save=True and writes the
\* data it holds at that moment to its RDB file; a node that does not answer
\* is terminated and its file stays as it was; the files are kept
ClusterStop ==
    \E held \in [1..MaxNodes -> 0..2], answers \in [1..MaxNodes -> BOOLEAN] :
    /\ fg.seq < MaxCalls
    /\ managers.cluster.active
    /\ fg' = Call("stop", [kind |-> "stopped"])
    /\ managers' = [managers EXCEPT
                       !.cluster.running = FALSE,
                       !.cluster.nodes =
                           [p \in 1..MaxNodes |->
                               [up |-> FALSE,
                                rdb |-> IF @[p].up /\ answers[p] THEN held[p] ELSE @[p].rdb,
                                loaded |-> @[p].loaded]]]
    /\ UNCHANGED <<shell, export_thread, export_status, current_operation, stop_event,
                   workers, files, state, source, imp>>

\* _start: start_nodes on the ports of the configuration, then the
\* configuration says running: "Cluster started with data preserved."
ClusterStart ==
    \E removed \in BOOLEAN :
    /\ fg.seq < MaxCalls
    /\ managers.cluster.active
    /\ fg' = Call("start", [kind |-> "started"])
    /\ managers' = [managers EXCEPT
                       !.cluster.running = TRUE,
                       !.cluster.nodes = StartNodes(@, removed)]
    /\ UNCHANGED <<shell, export_thread, export_status, current_operation, stop_event,
                   workers, files, state, source, imp>>

ClusterSpec == StateInit /\ [][ClusterDeploy \/ ClusterStop \/ ClusterStart]_vars

-----------------------------------------------------------------------------
(* The command history of the two StateManager classes, each command a     *)
(* text.                                                                   *)

max_history == 100

\* a version that never trims
NeverTrimmed(cls, history, command) ==
    IF command = <<>> \/ (history # <<>> /\ history[Len(history)] = command)
    THEN history
    ELSE Append(history, command)

\* add_command_to_history(command): nothing for an empty command, for the
\* command entered last and, in state_manager, for a /history command; else
\* the command is appended and the list cut to its last max_history entries
add_command_to_history(cls, history, command) ==
    IF \/ command = <<>>
       \/ cls = "state_manager" /\ StartsWith(command, <<47, 104, 105, 115, 116, 111, 114, 121>>)
       \/ history # <<>> /\ history[Len(history)] = command
    THEN history
    ELSE LET appended == Append(history, command)
         IN  IF Len(appended) > max_history
             THEN SubSeq(appended, Len(appended) - max_history + 1, Len(appended))
             ELSE appended

\* a call on an object of either class: the empty command, one of two
\* commands, or, among the first MaxLen entries, a /history command
AddCommand ==
    \E cls \in {"state", "state_manager"},
       command \in {<<>>, <<97>>, <<98>>, <<47, 104, 105, 115, 116, 111, 114, 121, 32, 49>>} :
    /\ Len(command) > 1 => Len(managers.command_history[cls]) < MaxLen
    /\ managers' = [managers EXCEPT !.command_history[cls] =
                                       add_command_to_history(cls, @, command)]
    /\ UNCHANGED Others

HistorySpec == StateInit /\ [][AddCommand]_vars

-----------------------------------------------------------------------------
(* The interactive loop of the shell over the command history: a line is   *)
(* recorded, then handled; '/history <n>' runs entry n of the history.     *)

\* handle_shell_command for the line `command` with `depth` frames of it on the
\* stack: '/history <n>' takes entry n of the history and, when the entry is a
\* shell command, calls itself with it; the outcome is what the loop gets back.
\* The history does not change during the call, so a chain of more nested
\* calls than the history has entries runs through some entry twice and goes
\* on until the interpreter's recursion limit raises RecursionError.
RECURSIVE handle_shell_command(_, _, _)
handle_shell_command(history, command, depth) ==
    IF ~(/\ Len(command) = 10
         /\ StartsWith(command, <<47, 104, 105, 115, 116, 111, 114, 121, 32>>)
         /\ command[10] \in 48..57)
    THEN "executed"
    ELSE LET index == command[10] - 48
         IN  IF history = <<>> THEN "no history"
             ELSE IF index < 1 \/ index > Len(history) THEN "invalid index"
             ELSE IF depth > Len(history) THEN "RecursionError"
             ELSE handle_shell_command(history, history[index], depth + 1)

\* one turn of start_interactive: the line read is added to the history of
\* the shell's StateManager (redis_shell.state), then handled; `except
\* Exception` prints the error and the loop goes on
start_interactive ==
    /\ fg.seq < MaxCalls
    /\ \E command_line \in {<<103, 101, 116>>,
                             <<47, 104, 105, 115, 116, 111, 114, 121, 32, 49>>,
                             <<47, 104, 105, 115, 116, 111, 114, 121, 32, 50>>,
                             <<47, 104, 105, 115, 116, 111, 114, 121, 32, 51>>} :
          LET history == add_command_to_history("state", managers.command_history.state,
                                                command_line)
          IN  /\ managers' = [managers EXCEPT !.command_history.state = history]
              /\ fg' = Call("line", [kind |-> handle_shell_command(history, command_line, 1)])
    /\ UNCHANGED <<shell, export_thread, export_status, current_operation, stop_event,
                   workers, files, state, source, imp>>

LineSpec == StateInit /\ [][start_interactive]_vars

-----------------------------------------------------------------------------
(* The properties checked.                                                 *)

\* the arguments of the data command of the one key of the codec runs: the key,
\* then its value or its items
CodecArgs == <<source[1].key>> \o source[1].value

\* the commands the import of that key's lines is to send, argument for argument
CodecExpected ==
    IF source[1].type = TypeString
    THEN <<[command |-> CmdSET, args |-> [i \in 1..Len(CodecArgs) |-> Wire(CodecArgs[i])]]>>
    ELSE <<[command |-> CmdDEL, args |-> <<Wire(source[1].key)>>],
           [command |-> CmdRPUSH, args |-> [i \in 1..Len(CodecArgs) |-> Wire(CodecArgs[i])]]>>

\* C1: codec round trip.  Once the line written for a key has been imported,
\* the commands sent are the ones exported, each with as many arguments as were
\* written and every argument the very bytes of the key or value it encodes.
C1_CodecRoundTrip == imp.file = 1 => imp.sent = CodecExpected

\* bytes that are not UTF-8, or decode to a character neither printable nor space
IsBinary(value) ==
    /\ value.t = "bytes"
    /\ LET d == Utf8Decode(value.v)
       IN  ~d.ok \/ \E i \in 1..Len(d.text) : ~(IsPrintable(d.text[i]) \/ IsSpace(d.text[i]))

\* a value whose token cannot disturb the tokens after it: binary, or text with
\* no backslash and no line break in it
LineSafe(value) ==
    \/ IsBinary(value)
    \/ LET text == IF value.t = "bytes" THEN Utf8Decode(value.v).text ELSE value.v
       IN  \A i \in 1..Len(text) : text[i] \notin {BACKSLASH, NEWLINE, CARRIAGE_RETURN}

Contains(text, token) ==
    \E k \in 0..(Len(text) - Len(token)) : SubSeq(text, k + 1, k + Len(token)) = token

CallOf(line) ==
    IF StartsWith(line, CmdSET) THEN [command |-> CmdSET, args |-> <<<<97>>, <<49>>>>]
    ELSE [command |-> CmdDEL, args |-> <<<<97>>>>]

\* C3: partial-failure isolation.  After the import of a file of accepted,
\* rejected, comment and blank lines, the successes are the accepted lines, the
\* failures the rejected lines, every accepted line was executed, in file order,
\* wherever the rejected lines stand, and the persisted summary says the same.
C3_ImportIsolation ==
    imp.file = 1 =>
        LET lines == ReadLines(files[1].text)
            accepted == SelectSeq(lines, LAMBDA l : l \in AcceptedLines)
            rejected == SelectSeq(lines, LAMBDA l : l \in RejectedLines)
        IN  /\ imp.ok = Len(accepted)
            /\ imp.failed = Len(rejected)
            /\ imp.executed = [i \in 1..Len(accepted) |-> CallOf(accepted[i])]
            /\ state.last_import.commands_executed = Len(accepted)
            /\ state.last_import.commands_failed = Len(rejected)
            /\ fg.result.kind = "completed" =>
                  fg.result.ok = Len(accepted) /\ fg.result.failed = Len(rejected)

\* a file whose first line is rejected, then a comment, then an accepted line
C3_Witness ==
    /\ imp.file = 1
    /\ LET lines == ReadLines(files[1].text)
       IN  /\ Len(lines) = 3
           /\ lines[1] \in RejectedLines
           /\ lines[2] \in SkippedLines
           /\ lines[3] \in AcceptedLines
    /\ imp.ok = 1
    /\ imp.failed = 1

C5_StartGuard ==
    [][ (fg'.seq # fg.seq /\ fg'.call = "export") =>
            IF IsAlive(export_thread)
            THEN /\ fg'.result.kind = "already_running"
                 /\ UNCHANGED <<export_thread, workers, stop_event, export_status,
                                current_operation>>
            ELSE /\ fg'.result.kind = "started"
                 /\ export_thread' # export_thread
                 /\ workers[export_thread'].pc = "unborn"
                 /\ workers'[export_thread'].pc = "connect"
                 /\ \A u \in 1..MaxRuns : u # export_thread' => workers'[u] = workers[u]
      ]_vars

\* a start refused with a cancellation pending, in the second run: the start
\* after the first run's end was accepted
C5_Witness ==
    /\ fg.call = "export"
    /\ fg.result.kind = "already_running"
    /\ stop_event
    /\ export_thread = 2
    /\ workers[1].pc = "done"
    /\ IsAlive(2)

\* the text a run writes for the keys of `chosen`, in the order of `keys`
RECURSIVE ExportOf(_, _, _)
ExportOf(keys, chosen, j) ==
    IF j > Len(keys) THEN <<>>
    ELSE (IF j \in chosen THEN ExportKey(keys[j]) ELSE <<>>) \o ExportOf(keys, chosen, j + 1)

\* the keys of run t whose lines are in its file, when the file is the whole
\* lines of as many keys as the run counts processed, among those it has passed
WrittenKeys(t) ==
    { chosen \in SUBSET (1..(workers[t].i - 1)) :
        /\ Cardinality(chosen) = workers[t].processed_keys
        /\ files[t].text = ExportOf(workers[t].all_keys, chosen, 1) }

CompleteLines(text) == text = <<>> \/ text[Len(text)] = NEWLINE

C7_Reset ==
    [][ (fg'.seq # fg.seq /\ fg'.call = "reset" /\ IsAlive(export_thread)) =>
            /\ export_thread' = NoThread
            /\ current_operation' = "None"
            /\ export_status' = NoStatus
            /\ workers' = workers
            /\ shell' = "running"
      ]_vars

KnownTypes == {TypeString, TypeHash, TypeList, TypeSet, TypeZset, TypeStream, TypeJson}

\* the command lines the export of one key holds
CommandLines(entry) ==
    IF entry.type = TypeString THEN 1 ELSE IF entry.type = TypeList THEN 2 ELSE 0

RECURSIVE SumOver(_, _)
SumOver(keys, chosen) ==
    IF chosen = {} THEN 0
    ELSE LET j == CHOOSE k \in chosen : TRUE
         IN  CommandLines(keys[j]) + SumOver(keys, chosen \ {j})

C10_ReturnToIdle ==
    (export_thread # NoThread /\ workers[export_thread].pc = "done") =>
        current_operation = "None"

\* C11: status reports the last outcome.  When a status call finds a run ended
\* and no worker alive, its answer carries that run's terminal message, or, for
\* a run that completed, that run's counts in the last-export block.
C11_StatusReportsLastOutcome ==
    (fg.call = "status" /\ fg.result.kind # "running" /\ export_thread # NoThread) =>
        \/ fg.result.status = export_status
        \/ /\ export_status.kind = "Success"
           /\ fg.result.last_export.present
           /\ fg.result.last_export.file = export_thread
           /\ fg.result.last_export.keys_exported = export_status.n

\* C12: scan-loop termination.  Whatever cursors, pages and errors the scan
\* calls answer with, a run never makes more than max_iterations turns of the
\* scan loop, every turn that stays in the loop counts as one, and a run at the
\* limit is no longer in the loop but on its way to its end.
C12_ScanLoopBounded ==
    /\ [](\A t \in 1..MaxRuns :
            /\ workers[t].iteration_count <= max_iterations
            /\ workers[t].pc = "scan" /\ workers[t].iteration_count = max_iterations
                  => ENABLED WorkerScanLimit)
    /\ [][\A t \in 1..MaxRuns :
            (workers[t].pc = "scan" /\ workers'[t].pc \in {"scan", "limit", "done"})
                => workers'[t].iteration_count = workers[t].iteration_count + 1]_vars

\* a server that hands out a new cursor at every call: the run has made its
\* 10000 scan calls and has ended
C12_Witness ==
    /\ workers[1].pc = "done"
    /\ workers[1].iteration_count = max_iterations
    /\ workers[1].seen_cursors.upto = max_iterations - 1
    /\ workers[1].cursor = IntCursor(max_iterations)

\* C13: iteration-cap warning.  When a run whose scan loop made max_iterations
\* turns has ended, the status is the safety-limit warning.
C13_CapWarningStays ==
    \A t \in 1..MaxRuns :
        (export_thread = t /\ workers[t].pc = "done"
         /\ workers[t].iteration_count >= max_iterations)
            => export_status.kind = "SafetyLimit"

\* TS.CREATE, TS.ADD, DUPLICATE_POLICY LAST
CmdTSCREATE == <<84, 83, 46, 67, 82, 69, 65, 84, 69>>
CmdTSADD == <<84, 83, 46, 65, 68, 68>>
PolicyLast == <<68, 85, 80, 76, 73, 67, 65, 84, 69, 95, 80, 79, 76, 73, 67, 89, 32, 76, 65, 83, 84>>

\* C14: time-series export.  The lines written for a key of type TSDB-TYPE are
\* one TS.CREATE line for the key with DUPLICATE_POLICY LAST, then one
\* 'TS.ADD <key> <timestamp> <value>' line per sample.
C14_TimeSeriesExport ==
    (files[1].exists /\ source # <<>> /\ source[1].type = TypeTimeSeries) =>
        LET lines == ReadLines(files[1].text)
            key_str == _format_for_command(source[1].key)
            samples == source[1].value
        IN  /\ Len(lines) = 1 + Len(samples) \div 2
            /\ StartsWith(lines[1], CmdTSCREATE \o <<SPACE>> \o key_str)
            /\ Contains(lines[1], PolicyLast)
            /\ \A k \in 1..(Len(samples) \div 2) :
                  RStrip(lines[1 + k]) =
                      Join(<<CmdTSADD, key_str, samples[2 * k - 1].v, samples[2 * k].v>>,
                           <<SPACE>>)

\* C15: JSON document round trip.  Once the file written for a JSON document
\* has been imported into an empty database, exactly one document-set was
\* executed, for that key at the root path, and the document it set is the
\* original.
C15_JsonRoundTrip ==
    (imp.file = 1 /\ source[1].type = TypeJson) =>
        /\ Len(imp.executed) = 1
        /\ imp.failed = 0
        /\ imp.executed[1].command = CmdJSONSET
        /\ Len(imp.executed[1].args) = 3
        /\ imp.executed[1].args[1] = Wire(source[1].key)
        /\ imp.executed[1].args[2] = <<DOLLAR>>
        /\ JsonLoads(Utf8Decode(imp.executed[1].args[3]).text)
              = [ok |-> TRUE, doc |-> source[1].value[1]]

\* C16: idempotent replay.  An import of a file that comes straight after a
\* completed import of the same file leaves every key of the target as that
\* import left it.
C16_IdempotentReplay ==
    [][(/\ fg.call = "import" /\ fg.result.kind = "completed"
        /\ fg'.call = "import" /\ fg'.result.kind = "completed"
        /\ imp'.file = imp.file)
           => imp'.db = imp.db]_vars

\* C17: handler outcomes are strings.  Every call of the export, import or
\* status handler has handed a string outcome back to the shell loop, and the
\* loop is still running.
C17_HandlersReturnStrings ==
    fg.call \in {"export", "cancel", "reset", "import", "status"} =>
        fg.result.kind # "SystemExit" /\ shell = "running"

\* C18: no silent key loss.  Every key whose turn in the loop is over stands
\* in the run's file: some line of the file names it, be it a command line or
\* a comment.
C18_EveryKeyLeavesATrace ==
    \A t \in 1..MaxRuns :
        files[t].exists =>
            \A j \in 1..Len(workers[t].all_keys) :
                j < workers[t].i =>
                    Contains(files[t].text, _format_for_command(workers[t].all_keys[j].key))

\* C19: StateManager is a singleton.  Any two handles obtained by constructing
\* redis_shell.state.StateManager refer to one object, and so show the same
\* state.
C19_StateSingleton ==
    \A h1, h2 \in 1..Len(managers.handles) :
        (ObjectOf(h1).cls = "state" /\ ObjectOf(h2).cls = "state") =>
            /\ managers.handles[h1] = managers.handles[h2]
            /\ ObjectOf(h1)._state = ObjectOf(h2)._state

\* C20: a successful use of a registered id leaves the extension's own current
\* connection id equal to that id, marked as current in the listing and
\* persisted as current_connection_id, and equal to the connection manager's
\* current id
C20_UseSwitchesCurrent ==
    [][(fg'.seq # fg.seq /\ fg'.call = "use" /\ fg'.result.kind = "SWITCH_CONNECTION") =>
          /\ managers'.connection._current_connection_id = fg'.result.id
          /\ ListedCurrent' = {fg'.result.id}
          /\ managers'.connection.persisted.current_connection_id = fg'.result.id
          /\ managers'.connection.manager_id
                = managers'.connection._current_connection_id]_vars

\* C21: a created connection receives the smallest positive integer that is
\* not the id of an existing connection: the id is new, every smaller positive
\* integer is taken, and the other connections stay as they were
C21_SmallestFreeId ==
    [][(fg'.seq # fg.seq /\ fg'.call = "create" /\ fg'.result.kind = "created") =>
          LET before == IdsOf(managers.connection._connections)
              after == IdsOf(managers'.connection._connections)
              id == fg'.result.id
          IN  /\ id >= 1
              /\ id \notin before
              /\ \A n \in 1..(id - 1) : n \in before
              /\ after = before \cup {id}
              /\ Len(managers'.connection._connections) = Cardinality(after)]_vars

\* a connection was created under an id that a destroy had freed: a larger id
\* is still registered
C21_Witness ==
    /\ fg.call = "create"
    /\ fg.result.kind = "created"
    /\ \E id \in IdsOf(managers.connection._connections) : id > fg.result.id
    /\ \A i, j \in 1..Len(managers.connection._connections) :
          i # j => managers.connection._connections[i] # managers.connection._connections[j]

\* C23: once a scan call has handed back the completion cursor zero, as the
\* integer 0, the bytes b'0' or the text '0', the page is processed and the
\* loop is left: no run that has made a scan call is about to make another
\* one with a zero cursor, so no page is scanned twice and no key exported
\* twice
C23_ZeroCursorEndsScan ==
    \A t \in 1..MaxRuns :
        (workers[t].pc = "scan" /\ workers[t].iteration_count > 0) =>
            workers[t].cursor.v # 0

\* the keys a line of an export file is about: the key follows the command
\* name, or ends the comment of an unsupported type
KeysOfLine(line) ==
    { k \in SourceKeys :
        \/ \E cmd \in {CmdSET, CmdDEL, CmdHSET, CmdRPUSH, CmdSADD, CmdZADD, CmdXADD} :
              \/ line = Join(<<cmd, _format_for_command(k)>>, <<SPACE>>)
              \/ StartsWith(line, Join(<<cmd, _format_for_command(k), <<>>>>, <<SPACE>>))
        \/ /\ StartsWith(line, <<HASH>>)
           /\ EndsWith(line, <<SPACE>> \o _format_for_command(k)) }

\* C22: in the file of every run and for every list, set, sorted-set or stream
\* key of the database, each RPUSH / SADD / ZADD / XADD line of the key has the
\* key's DEL line before it with only lines of that key between, and the
\* lines of the key are one block: no line of another key lies between two
\* of them
C22_KeyLinesTogether ==
    \A t \in 1..MaxRuns :
        LET lines == ReadLines(files[t].text)
            data(i, k) ==
                \E cmd \in {CmdRPUSH, CmdSADD, CmdZADD, CmdXADD} :
                    StartsWith(lines[i], Join(<<cmd, _format_for_command(k)>>, <<SPACE>>))
            del(i, k) == lines[i] = Join(<<CmdDEL, _format_for_command(k)>>, <<SPACE>>)
        IN  \A j \in 1..Len(source) :
                source[j].type \in {TypeList, TypeSet, TypeZset, TypeStream} =>
                    LET k == source[j].key
                    IN  /\ \A i \in 1..Len(lines) :
                              (k \in KeysOfLine(lines[i]) /\ data(i, k)) =>
                                  \E d \in 1..(i - 1) :
                                      /\ del(d, k)
                                      /\ \A m \in d..i : KeysOfLine(lines[m]) = {k}
                        /\ \A a, b \in 1..Len(lines) :
                              (a < b /\ k \in KeysOfLine(lines[a]) /\ k \in KeysOfLine(lines[b]))
                                  => \A m \in a..b : KeysOfLine(lines[m]) = {k}

\* C24: when a stopped cluster is started again, every node is launched with
\* the data its cluster-<port>.rdb file held after the stop
C24_RestartKeepsData ==
    [][(fg.call = "stop" /\ fg'.call = "start" /\ fg'.seq # fg.seq) =>
          \A p \in 1..MaxNodes :
              /\ managers'.cluster.nodes[p].up
              /\ managers'.cluster.nodes[p].loaded = managers.cluster.nodes[p].rdb]_vars

\* C25: from an empty history, after any calls of add_command_to_history with
\* the default limit, the history has at most max_history entries, none of
\* them empty and no two neighbours equal; and a call that changes it puts
\* one command at the end of the entries it had, in their order, dropping
\* only the oldest one and only from a full history
C25_HistoryInvariants ==
    /\ [](\A cls \in {"state", "state_manager"} :
            LET history == managers.command_history[cls]
            IN  /\ Len(history) <= max_history
                /\ \A i \in 1..Len(history) : history[i] # <<>>
                /\ \A i \in 1..(Len(history) - 1) : history[i] # history[i + 1])
    /\ [][\A cls \in {"state", "state_manager"} :
            LET old == managers.command_history[cls]
                new == managers'.command_history[cls]
            IN  new # old =>
                    /\ new # <<>>
                    /\ IF Len(old) < max_history
                       THEN SubSeq(new, 1, Len(new) - 1) = old
                       ELSE SubSeq(new, 1, Len(new) - 1) = Tail(old)]_vars

\* the histories of both classes are full, so that the next accepted command
\* drops the oldest entry, and they differ
C25_Witness ==
    /\ Len(managers.command_history["state"]) = max_history
    /\ Len(managers.command_history["state_manager"]) = max_history
    /\ managers.command_history["state"][1] # managers.command_history["state_manager"][1]

\* C26: the connection manager's current connection id is None or the id of
\* a connection of its registry, after the start of the shell and after any
\* create, destroy and use
C26_CurrentIsRegistered ==
    \/ managers.connection.manager_id = 0
    \/ managers.connection.manager_id \in IdsOf(managers.connection._connections)

\* C27: what a component has persisted under its namespace is still in the
\* state file after any later save: no save removes or replaces the value of
\* a namespace other than the one it is made for
C27_NoLostUpdate ==
    [][\A e \in Extensions :
          managers.state_file[e] # 0 =>
              \/ managers'.state_file[e] = managers.state_file[e]
              \/ \A other \in Extensions \ {e} :
                    managers'.state_file[other] = managers.state_file[other]]_vars

\* the value the target holds for an exported key when it holds exactly what
\* was exported: the one value, the items, or the fields with their values
RECURSIVE StoredPairs(_)
StoredPairs(pairs) ==
    IF pairs = <<>> THEN <<>>
    ELSE <<Wire(pairs[1].field), Wire(pairs[1].value)>> \o StoredPairs(Tail(pairs))

\* C30: import restores exported values over existing keys.  When the file of
\* an export is imported into a target that already holds the exported key
\* with a value of the same type, the key holds exactly the exported value
\* after the import: nothing is left over from the previous value.
C30_ImportRestoresValue ==
    [][LET entry == source[1]
           key == Wire(entry.key)
           kind == StoredType(IF entry.type = TypeList THEN CmdRPUSH
                              ELSE IF entry.type = TypeHash THEN CmdHSET ELSE CmdSET)
       IN  (/\ fg'.call = "import" /\ fg'.result.kind = "completed" /\ fg'.seq # fg.seq
            /\ key \in DOMAIN imp.db
            /\ imp.db[key].type = kind)
              => /\ key \in DOMAIN imp'.db
                 /\ imp'.db[key].type = kind
                 /\ imp'.db[key].value =
                       IF entry.type = TypeHash THEN StoredPairs(entry.value)
                       ELSE [i \in 1..Len(entry.value) |-> Wire(entry.value[i])]]_vars

\* C28: export and import summaries do not overwrite each other.  When the
\* export worker and the import have both handed their dict to
\* set_extension_state, the 'data' namespace holds a last_export and a
\* last_import summary, whatever the order of their steps.
C28_BothSummariesKept ==
    (managers.data.export.pc = "done" /\ managers.data.import.pc = "done") =>
        /\ managers.data.namespace # 0
        /\ managers.data.dicts[managers.data.namespace].last_export # 0
        /\ managers.data.dicts[managers.data.namespace].last_import # 0

\* C29: history replay terminates.  Every line handled by the interactive
\* loop, also a '/history <n>' line whose entry is a '/history <k>' command,
\* comes back from handle_shell_command without running into the recursion
\* limit.
C29_ReplayTerminates ==
    fg.call = "line" => fg.result.kind # "RecursionError"

====
